---- MODULE Spec2Model ----
(***************************************************************************)
(* Model of the recommendation engine of go_ddd_example:                   *)
(*   - valueobject.RecommendationReason (Weight, RelatedUsers)             *)
(*   - aggregate.UserRecommendation     (the candidate)                    *)
(*   - aggregate.RecommendationList     (the collection)                   *)
(*   - service.RecommendationGenerator  (the two-hop traversal)            *)
(*                                                                         *)
(* Candidates are heap objects: recs[i] is the object behind pointer i,    *)
(* and a RecommendationList holds pointers, as the Go slice does.          *)
(* Time is counted in seconds; time.Now() reads the variable now.          *)
(***************************************************************************)
EXTENDS Integers, Sequences, FiniteSets, TLC

\* ------------------------------------------------------------------ bounds
MaxUser == 3
MaxEvidence == 3
MaxCount == 5
MaxCandRecs == 1
MaxListRecs == 2
MaxListCount == 1
MaxListEvidence == 2
MaxTopN == 3
MaxDays == 7
MaxSecs == 1
MaxListTicks == 1
ListTickDays == 8
MaxFollowings == 2
MaxRecent == 2
MaxPosts == 1
MaxSvcUser == 1
MaxSvcLimit == 2
MaxSvcFollowings == 1
MaxPostID == 2
MaxPostList == 1
MaxTwiceFollowings == 1
MaxConcUser == 2
MaxConcFollowings == 1
MaxConcRecent == 2
MaxConcPosts == 0
MaxRowID == 2
MaxRows == 2

\* --------------------------------------------------------------- constants
ReasonFollowedByFollowing == 0
ReasonPopularInNetwork == 1
ReasonOther == 2

Hour == 60 * 60
Day == 24 * Hour

ErrNone == "nil"
ErrNoReasonForRecommendation == "no reason for recommendation"
ErrCannotRecommendSelf == "cannot recommend self"
ErrDuplicateRecommendation == "duplicate recommendation"

\* context.DeadlineExceeded, what a query made under a context whose deadline
\* has passed ends with
ErrDeadlineExceeded == "context deadline exceeded"

\* the errors a collaborator call may end with
UpstreamErrors == {"db unavailable", ErrDeadlineExceeded}

\* ------------------------------------------------------------------ inputs
Users == 1..MaxUser
ReasonTypes == {ReasonFollowedByFollowing, ReasonPopularInNetwork, ReasonOther}

SeqsUpTo(S, n) == UNION {[1..k -> S] : k \in 0..n}

\* evidence lists of every length up to MaxEvidence: <<>>, <<1>>, <<1, 2>>, ...
EvidenceInputs == {[k \in 1..n |-> k] : n \in 0..MaxEvidence}
CountInputs == (0 - 1)..MaxCount

Range(s) == {s[i] : i \in 1..Len(s)}
Min(a, b) == IF a < b THEN a ELSE b

\* ------------------------------------------------- RecommendationReason
NewRecommendationReason(t, users) == [reasonType |-> t, relatedUsers |-> users]

RelatedUsers(r) == r.relatedUsers

Weight(r) ==
    CASE r.reasonType = ReasonFollowedByFollowing -> Len(r.relatedUsers) * 10
      [] r.reasonType = ReasonPopularInNetwork -> 5
      [] OTHER -> 1

ReasonInputs == {NewRecommendationReason(t, e) : t \in ReasonTypes, e \in EvidenceInputs}

\* --------------------------------------------------- UserRecommendation
\* mutant: the activity bonus counted once instead of twice
calculateScore_Single(reason, postCount) ==
    IF postCount > 0 THEN Weight(reason) + postCount ELSE Weight(reason)

calculateScore(reason, postCount) ==
    IF postCount > 0 THEN Weight(reason) + postCount * 2 ELSE Weight(reason)

\* mutant: evidence demanded of the followed-by-following kind only
NewUserRecommendationError_KindOnly(reason) ==
    IF reason.reasonType = ReasonFollowedByFollowing /\ Len(RelatedUsers(reason)) = 0
      THEN ErrNoReasonForRecommendation
      ELSE ErrNone

NewUserRecommendationError(reason) ==
    IF Len(RelatedUsers(reason)) = 0 THEN ErrNoReasonForRecommendation ELSE ErrNone

ExpiryFrom(t) == t + 7 * 24 * Hour

\* mutant: expired from the instant of expiry on
After_OrEqual(t, u) == t >= u

\* time.Time.After
After(t, u) == t > u

IsExpired(r, t) == After(t, r.expiresAt)

\* ------------------------------------------------------------- state
VARIABLES
    now,              \* the wall clock, in seconds
    recs,             \* heap of UserRecommendation objects, recs[i] behind pointer i
    given,            \* ghost: given[i] is the last post count handed to object i
    forUserID,        \* RecommendationList.forUserID
    recommendations,  \* RecommendationList.recommendations (pointers)
    generatedAt,      \* RecommendationList.generatedAt
    lastOp,           \* the last call made and what it returned
    pc,               \* where GenerateFollowingBasedRecommendations stands
    followings,       \* its local followings
    hop,              \* index of the next element of followings to look up
    recentFollowedUsers, \* its local map: target -> the followings that follow it
    pending,          \* keys of the map the range loop has not visited yet
    calls,            \* the collaborator calls issued so far, in order
    genErr,           \* the error it returned
    genRet,           \* the list it returned: "nil" or "list"
    ctxErr,           \* ctx.Err(): ErrNone until the deadline of the call's context passes
    svc,              \* RecommendationService.GetFollowingBasedRecommendations: where
                      \* it stands, its limit and topRecommendations, what it returned
    other             \* the locals of a second call on the same generator, which is
                      \* not running now

vars == <<now, recs, given, forUserID, recommendations, generatedAt, lastOp,
          pc, followings, hop, recentFollowedUsers, pending, calls, genErr, genRet,
          ctxErr, svc, other>>

listVars == <<forUserID, recommendations, generatedAt>>

genVars == <<pc, followings, hop, recentFollowedUsers, pending, calls, genErr, genRet,
            ctxErr, svc, other>>

\* lastOp: op the call, rec the candidate pointer it was about (0: none), arg its
\* integer argument, err the error returned, ret the slice returned, flag the
\* boolean returned, panicked whether the call ended in a runtime panic, shares
\* whether the slice returned has the backing array of l.recommendations,
\* before (ghost) what a call that overwrites it found: the list for
\* RemoveExpired and FilterByMinScore, <<expiresAt>> for Refresh; input and
\* output: the configuration and answers getRecentPosts met, and what it did
\* reason: the reason handed to NewUserRecommendation (NoReason for other calls)
NoReason == [reasonType |-> ReasonOther, relatedUsers |-> <<>>]

NoOp == [op |-> "none", rec |-> 0, arg |-> 0, err |-> ErrNone, ret |-> <<>>,
         flag |-> FALSE, panicked |-> FALSE, reason |-> NoReason, shares |-> FALSE,
     before |-> <<>>, input |-> <<>>, output |-> <<>>]

Op(name, r, a, e, rt, f, p) ==
    [op |-> name, rec |-> r, arg |-> a, err |-> e, ret |-> rt, flag |-> f, panicked |-> p,
     reason |-> NoReason, shares |-> FALSE,
     before |-> <<>>, input |-> <<>>, output |-> <<>>]

\* ------------------------------------------- UserRecommendation actions
\* the object NewUserRecommendation builds at time t; id stands for the fresh
\* RecommendationID
UserRecommendation(id, targetUserID, reason, recentPostCount, t) ==
    [id              |-> id,
     targetUserID    |-> targetUserID,
     reason          |-> reason,
     score           |-> calculateScore(reason, recentPostCount),
     recentPostCount |-> recentPostCount,
     createdAt       |-> t,
     expiresAt       |-> ExpiryFrom(t)]

NewUserRecommendation(targetUserID, reason, recentPostCount) ==
    LET err == NewUserRecommendationError(reason) IN
    /\ IF err # ErrNone
         THEN /\ lastOp' = [Op("NewUserRecommendation", 0, recentPostCount, err, <<>>,
                                 FALSE, FALSE) EXCEPT !.reason = reason]
              /\ UNCHANGED <<recs, given>>
         ELSE /\ recs' = Append(recs, UserRecommendation(Len(recs) + 1, targetUserID,
                                                         reason, recentPostCount, now))
              /\ given' = Append(given, recentPostCount)
              /\ lastOp' = [Op("NewUserRecommendation", Len(recs) + 1, recentPostCount,
                               ErrNone, <<>>, FALSE, FALSE) EXCEPT !.reason = reason]
    /\ UNCHANGED <<now, listVars, genVars>>

IsExpiredCall(i) ==
    /\ i \in 1..Len(recs)
    /\ lastOp' = Op("IsExpired", i, 0, ErrNone, <<>>, IsExpired(recs[i], now), FALSE)
    /\ UNCHANGED <<now, recs, given, listVars, genVars>>

\* mutant: the candidate made new, its creation time reset as well
Refresh_ResetsCreatedAt(i) ==
    /\ i \in 1..Len(recs)
    /\ recs' = [recs EXCEPT ![i].expiresAt = ExpiryFrom(now), ![i].createdAt = now]
    /\ lastOp' = [Op("Refresh", i, 0, ErrNone, <<>>, FALSE, FALSE)
                     EXCEPT !.before = <<recs[i].expiresAt>>]
    /\ UNCHANGED <<now, given, listVars, genVars>>

Refresh(i) ==
    /\ i \in 1..Len(recs)
    /\ recs' = [recs EXCEPT ![i].expiresAt = ExpiryFrom(now)]
    /\ lastOp' = [Op("Refresh", i, 0, ErrNone, <<>>, FALSE, FALSE)
                     EXCEPT !.before = <<recs[i].expiresAt>>]
    /\ UNCHANGED <<now, given, listVars, genVars>>

\* mutant: the count stored without the score being recomputed
UpdatePostCount_StaleScore(i, newCount) ==
    /\ i \in 1..Len(recs)
    /\ recs' = [recs EXCEPT ![i].recentPostCount = newCount]
    /\ given' = [given EXCEPT ![i] = newCount]
    /\ lastOp' = Op("UpdatePostCount", i, newCount, ErrNone, <<>>, FALSE, FALSE)
    /\ UNCHANGED <<now, listVars, genVars>>

UpdatePostCount(i, newCount) ==
    /\ i \in 1..Len(recs)
    /\ recs' = [recs EXCEPT ![i].recentPostCount = newCount,
                            ![i].score = calculateScore(recs[i].reason, newCount)]
    /\ given' = [given EXCEPT ![i] = newCount]
    /\ lastOp' = Op("UpdatePostCount", i, newCount, ErrNone, <<>>, FALSE, FALSE)
    /\ UNCHANGED <<now, listVars, genVars>>

\* the clock moves on by d seconds
Tick(d) ==
    /\ now' = now + d
    /\ lastOp' = Op("Tick", 0, d, ErrNone, <<>>, FALSE, FALSE)
    /\ UNCHANGED <<recs, given, listVars, genVars>>

\* ------------------------------------------------- RecommendationList
\* UserID.Equals
Equals(u, v) == u = v

\* mutant: the owner check left out
AddRecommendationError_NoSelfCheck(h, owner, l, i) ==
    IF \E k \in 1..Len(l) : Equals(h[l[k]].targetUserID, h[i].targetUserID)
      THEN ErrDuplicateRecommendation
      ELSE ErrNone

\* mutant: the duplicate check left out
AddRecommendationError_NoDuplicateCheck(h, owner, l, i) ==
    IF Equals(h[i].targetUserID, owner) THEN ErrCannotRecommendSelf ELSE ErrNone

\* mutant: the duplicate check compares with the last held candidate only
AddRecommendationError_LastOnly(h, owner, l, i) ==
    IF Equals(h[i].targetUserID, owner)
      THEN ErrCannotRecommendSelf
      ELSE IF Len(l) > 0 /\ Equals(h[l[Len(l)]].targetUserID, h[i].targetUserID)
             THEN ErrDuplicateRecommendation
             ELSE ErrNone

AddRecommendationError(h, owner, l, i) ==
    IF Equals(h[i].targetUserID, owner)
      THEN ErrCannotRecommendSelf
      ELSE IF \E k \in 1..Len(l) : Equals(h[l[k]].targetUserID, h[i].targetUserID)
             THEN ErrDuplicateRecommendation
             ELSE ErrNone

Perms(l) ==
    {[k \in 1..Len(l) |-> l[f[k]]] :
        f \in {g \in [1..Len(l) -> 1..Len(l)] : \A a, b \in 1..Len(l) : g[a] = g[b] => a = b}}

\* mutant: ascending comparison
Less_Ascending(h, a, b) == h[a].score < h[b].score

\* the comparison handed to sort.Slice
Less(h, a, b) == h[a].score > h[b].score

\* sort.Slice orders by Less and, unlike sort.SliceStable, promises nothing
\* about elements neither of which is Less than the other: which arrangement
\* comes out depends on the length of the slice and on the release of the
\* runtime, so every arrangement ordered by Less is a possible outcome
SortSlice(h, l) ==
    {p \in Perms(l) : \A a, b \in 1..Len(p) : a < b => ~Less(h, p[b], p[a])}

\* sorted[:n] panics on a negative bound
TopNPanics(sorted, n) == Len(sorted) > n /\ n < 0

TopNSlice(sorted, n) == IF Len(sorted) > n THEN SubSeq(sorted, 1, n) ELSE sorted

\* mutant: the expired candidates kept, the valid ones dropped
KeepValid_Inverted(h, l, t) == SelectSeq(l, LAMBDA i : IsExpired(h[i], t))

KeepValid(h, l, t) == SelectSeq(l, LAMBDA i : ~IsExpired(h[i], t))

\* mutant: a score equal to the minimum dropped too
KeepMinScore_Strict(h, l, minScore) == SelectSeq(l, LAMBDA i : h[i].score > minScore)

KeepMinScore(h, l, minScore) == SelectSeq(l, LAMBDA i : h[i].score >= minScore)

\* minimum scores at and just above the scores candidates without posts have
MinScoreInputs == {0} \cup {10 * k + d : k \in 1..MaxListEvidence, d \in {0, 1}}

AddRecommendation(i) ==
    LET err == AddRecommendationError(recs, forUserID, recommendations, i) IN
    /\ i \in 1..Len(recs)
    /\ recommendations' = IF err = ErrNone THEN Append(recommendations, i)
                                           ELSE recommendations
    /\ lastOp' = Op("AddRecommendation", i, 0, err, <<>>, FALSE, FALSE)
    /\ UNCHANGED <<now, recs, given, forUserID, generatedAt, genVars>>

\* mutant: the list's own slice handed out instead of a copy
Snapshot_Alias(l) == [items |-> l, shares |-> TRUE]

\* make([]*UserRecommendation, len(l)) and copy: the same pointers in a
\* backing array of their own
Snapshot(l) == [items |-> l, shares |-> FALSE]

\* sort.Slice sorts in place, the array of the copy
GetTopN(n) ==
    LET copy == Snapshot(recommendations) IN
    /\ \E sorted \in SortSlice(recs, copy.items) :
          /\ lastOp' = IF TopNPanics(sorted, n)
                         THEN Op("GetTopN", 0, n, ErrNone, <<>>, FALSE, TRUE)
                         ELSE [Op("GetTopN", 0, n, ErrNone, TopNSlice(sorted, n), FALSE,
                                  FALSE) EXCEPT !.shares = copy.shares]
          /\ recommendations' = IF copy.shares THEN sorted ELSE recommendations
    /\ UNCHANGED <<now, recs, given, forUserID, generatedAt, genVars>>

RemoveExpired ==
    /\ recommendations' = KeepValid(recs, recommendations, now)
    /\ lastOp' = [Op("RemoveExpired", 0, 0, ErrNone, <<>>, FALSE, FALSE)
                     EXCEPT !.before = recommendations]
    /\ UNCHANGED <<now, recs, given, forUserID, generatedAt, genVars>>

FilterByMinScore(minScore) ==
    /\ recommendations' = KeepMinScore(recs, recommendations, minScore)
    /\ lastOp' = [Op("FilterByMinScore", 0, minScore, ErrNone, <<>>, FALSE, FALSE)
                     EXCEPT !.before = recommendations]
    /\ UNCHANGED <<now, recs, given, forUserID, generatedAt, genVars>>

Count ==
    /\ lastOp' = Op("Count", 0, Len(recommendations), ErrNone, <<>>, FALSE, FALSE)
    /\ UNCHANGED <<now, recs, given, listVars, genVars>>

IsEmpty ==
    /\ lastOp' = Op("IsEmpty", 0, 0, ErrNone, <<>>, Len(recommendations) = 0, FALSE)
    /\ UNCHANGED <<now, recs, given, listVars, genVars>>

All ==
    LET result == Snapshot(recommendations) IN
    /\ lastOp' = [Op("All", 0, 0, ErrNone, result.items, FALSE, FALSE)
                     EXCEPT !.shares = result.shares]
    /\ UNCHANGED <<now, recs, given, listVars, genVars>>

\* --- what the holder of a slice returned by GetTopN or All may do to it
HoldsSlice == lastOp.op \in {"GetTopN", "All"} /\ ~lastOp.panicked

\* a write to an element of an array reaches every slice of that array
WriteThrough(ret) ==
    IF lastOp.shares
      THEN [k \in 1..Len(recommendations) |->
               IF k <= Len(ret) THEN ret[k] ELSE recommendations[k]]
      ELSE recommendations

\* ret[k] = i
CallerOverwrites(k, i) ==
    LET ret == [lastOp.ret EXCEPT ![k] = i] IN
    /\ HoldsSlice
    /\ k \in 1..Len(lastOp.ret)
    /\ i \in 1..Len(recs)
    /\ lastOp.ret[k] # i
    /\ lastOp' = [lastOp EXCEPT !.ret = ret]
    /\ recommendations' = WriteThrough(ret)
    /\ UNCHANGED <<now, recs, given, forUserID, generatedAt, genVars>>

\* ret[a], ret[b] = ret[b], ret[a]
CallerSwaps(a, b) ==
    LET ret == [lastOp.ret EXCEPT ![a] = lastOp.ret[b], ![b] = lastOp.ret[a]] IN
    /\ HoldsSlice
    /\ a \in 1..Len(lastOp.ret)
    /\ b \in 1..Len(lastOp.ret)
    /\ a < b
    /\ lastOp' = [lastOp EXCEPT !.ret = ret]
    /\ recommendations' = WriteThrough(ret)
    /\ UNCHANGED <<now, recs, given, forUserID, generatedAt, genVars>>

\* ret = ret[:n]: reslicing writes to no array
CallerTruncates(n) ==
    /\ HoldsSlice
    /\ n \in 0..(Len(lastOp.ret) - 1)
    /\ lastOp' = [lastOp EXCEPT !.ret = SubSeq(lastOp.ret, 1, n)]
    /\ UNCHANGED <<now, recs, given, listVars, genVars>>

\* ---------------------------------------------- RecommendationGenerator
\* GenerateFollowingBasedRecommendations, one step per collaborator call.
\* The responses of the two repositories are inputs; days is handed through
\* to them unchanged and is left out.
FollowingsInputs == SeqsUpTo(Users, MaxFollowings)

RecentInputs == SeqsUpTo(Users, MaxRecent)

PostCountInputs == 0..MaxPosts

\* one collaborator call: the function, the user asked about, what came back
Call(fn, user, resp, err) == [fn |-> fn, user |-> user, resp |-> resp, err |-> err]

\* mutant: the last connection found replaces the ones recorded before
MapAppend_Overwrite(m, k, v) ==
    IF k \in DOMAIN m THEN [m EXCEPT ![k] = <<v>>] ELSE m @@ (k :> <<v>>)

\* recentFollowedUsers[k] = append(recentFollowedUsers[k], v)
MapAppend(m, k, v) ==
    IF k \in DOMAIN m THEN [m EXCEPT ![k] = Append(@, v)] ELSE m @@ (k :> <<v>>)

\* the inner loop over recentFollows
RECURSIVE RecordFollows(_, _, _)
RecordFollows(m, recentFollows, following) ==
    IF recentFollows = <<>>
      THEN m
      ELSE RecordFollows(MapAppend(m, Head(recentFollows), following),
                         Tail(recentFollows), following)

\* mutant: a failed hop-1 fetch taken for an empty answer
AfterGetFollowings_ErrorAsEmpty(err, resp) ==
    IF err # ErrNone \/ Len(resp) = 0 THEN "empty" ELSE "hop2"

\* mutant: an empty hop-1 answer taken for a failure
AfterGetFollowings_EmptyAsFail(err, resp) ==
    IF err # ErrNone \/ Len(resp) = 0 THEN "fail" ELSE "hop2"

\* what follows the hop-1 fetch: "fail" returns the error, "empty" returns the
\* empty list, "hop2" goes on
AfterGetFollowings(err, resp) ==
    IF err # ErrNone THEN "fail"
    ELSE IF Len(resp) = 0 THEN "empty" ELSE "hop2"

\* list := NewRecommendationList(forUserID), then the call is about to fetch hop 1
GenerateStart(u) ==
    /\ pc = "idle"
    /\ forUserID' = u
    /\ recommendations' = <<>>
    /\ generatedAt' = now
    /\ pc' = "hop1"
    /\ UNCHANGED <<now, recs, given, lastOp, followings, hop, recentFollowedUsers,
                   pending, calls, genErr, genRet, ctxErr, svc, other>>

\* step 1: GetFollowings returns (resp, err)
GetFollowings(resp, err) ==
    LET after == AfterGetFollowings(err, resp) IN
    /\ pc = "hop1"
    /\ calls' = Append(calls, Call("GetFollowings", forUserID, resp, err))
    /\ CASE after = "fail" ->
              /\ pc' = "done" /\ genErr' = err /\ genRet' = "nil"
              /\ UNCHANGED <<followings, hop>>
         [] after = "empty" ->
              /\ pc' = "done" /\ genErr' = ErrNone /\ genRet' = "list"
              /\ UNCHANGED <<followings, hop>>
         [] OTHER ->
              /\ pc' = "hop2" /\ followings' = resp /\ hop' = 1
              /\ UNCHANGED <<genErr, genRet>>
    /\ UNCHANGED <<now, recs, given, listVars, lastOp, recentFollowedUsers, pending,
                   ctxErr, svc, other>>

\* mutant: a failed hop-2 lookup is made again
GetRecentFollowings_Retries(resp, err) ==
    LET following == followings[hop]
        m == IF err # ErrNone THEN recentFollowedUsers
             ELSE RecordFollows(recentFollowedUsers, resp, following)
        last == hop = Len(followings) /\ err = ErrNone
    IN
    /\ pc = "hop2"
    /\ calls' = Append(calls, Call("GetRecentFollowings", following, resp, err))
    /\ recentFollowedUsers' = m
    /\ hop' = IF err # ErrNone THEN hop ELSE hop + 1
    /\ pending' = IF last THEN DOMAIN m ELSE pending
    /\ pc' = IF ~last THEN "hop2" ELSE IF DOMAIN m = {} THEN "done" ELSE "step3"
    /\ genRet' = IF last /\ DOMAIN m = {} THEN "list" ELSE genRet
    /\ UNCHANGED <<now, recs, given, listVars, lastOp, followings, genErr, ctxErr,
                   svc, other>>

\* mutant: a failed hop-2 lookup ends the call with its error
GetRecentFollowings_FailFast(resp, err) ==
    LET following == followings[hop]
        m == RecordFollows(recentFollowedUsers, resp, following)
        last == hop = Len(followings)
    IN
    /\ pc = "hop2"
    /\ calls' = Append(calls, Call("GetRecentFollowings", following, resp, err))
    /\ IF err # ErrNone
         THEN /\ pc' = "done" /\ genErr' = err /\ genRet' = "nil"
              /\ UNCHANGED <<recentFollowedUsers, hop, pending>>
         ELSE /\ recentFollowedUsers' = m
              /\ hop' = hop + 1
              /\ pending' = IF last THEN DOMAIN m ELSE pending
              /\ pc' = IF ~last THEN "hop2" ELSE IF DOMAIN m = {} THEN "done" ELSE "step3"
              /\ genRet' = IF last /\ DOMAIN m = {} THEN "list" ELSE genRet
              /\ UNCHANGED genErr
    /\ UNCHANGED <<now, recs, given, listVars, lastOp, followings, ctxErr, svc, other>>

\* step 2, one pass of the loop over followings: GetRecentFollowings returns
\* (resp, err); after the last pass the range loop of step 3 starts, and the
\* call returns at once when the map is empty
GetRecentFollowings(resp, err) ==
    LET following == followings[hop]
        m == IF err # ErrNone THEN recentFollowedUsers
             ELSE RecordFollows(recentFollowedUsers, resp, following)
        last == hop = Len(followings)
    IN
    /\ pc = "hop2"
    /\ calls' = Append(calls, Call("GetRecentFollowings", following, resp, err))
    /\ recentFollowedUsers' = m
    /\ hop' = hop + 1
    /\ pending' = IF last THEN DOMAIN m ELSE pending
    /\ pc' = IF ~last THEN "hop2" ELSE IF DOMAIN m = {} THEN "done" ELSE "step3"
    /\ genRet' = IF last /\ DOMAIN m = {} THEN "list" ELSE genRet
    /\ UNCHANGED <<now, recs, given, listVars, lastOp, followings, genErr, ctxErr, svc, other>>

\* mutant: a candidate whose activity lookup failed is left out
BuildCandidate_CountErrorSkips(targetUserID, count, err) ==
    LET followedBy == recentFollowedUsers[targetUserID]
        postCount == IF err # ErrNone THEN 0 ELSE count
        reason == NewRecommendationReason(ReasonFollowedByFollowing, followedBy)
        newErr == NewUserRecommendationError(reason)
        i == Len(recs) + 1
        heap == Append(recs, UserRecommendation(i, targetUserID, reason, postCount, now))
        last == pending = {targetUserID}
    IN
    /\ pc = "step3"
    /\ targetUserID \in pending
    /\ calls' = Append(calls, Call("CountRecentPosts", targetUserID, postCount, err))
    /\ IF newErr # ErrNone \/ err # ErrNone
         THEN UNCHANGED <<recs, given, recommendations>>
         ELSE /\ recs' = heap
              /\ given' = Append(given, postCount)
              /\ recommendations' =
                    IF AddRecommendationError(heap, forUserID, recommendations, i) = ErrNone
                      THEN Append(recommendations, i)
                      ELSE recommendations
    /\ pending' = pending \ {targetUserID}
    /\ pc' = IF last THEN "done" ELSE "step3"
    /\ genRet' = IF last THEN "list" ELSE genRet
    /\ UNCHANGED <<now, forUserID, generatedAt, lastOp, followings, hop,
                   recentFollowedUsers, genErr, ctxErr, svc, other>>

\* mutant: a candidate the list refuses ends the call with the list's error
BuildCandidate_AddErrorAborts(targetUserID, count, err) ==
    LET followedBy == recentFollowedUsers[targetUserID]
        postCount == IF err # ErrNone THEN 0 ELSE count
        reason == NewRecommendationReason(ReasonFollowedByFollowing, followedBy)
        i == Len(recs) + 1
        heap == Append(recs, UserRecommendation(i, targetUserID, reason, postCount, now))
        addErr == AddRecommendationError(heap, forUserID, recommendations, i)
        last == pending = {targetUserID}
    IN
    /\ pc = "step3"
    /\ targetUserID \in pending
    /\ calls' = Append(calls, Call("CountRecentPosts", targetUserID, postCount, err))
    /\ recs' = heap
    /\ given' = Append(given, postCount)
    /\ recommendations' = IF addErr = ErrNone THEN Append(recommendations, i)
                                              ELSE recommendations
    /\ pending' = pending \ {targetUserID}
    /\ pc' = IF last \/ addErr # ErrNone THEN "done" ELSE "step3"
    /\ genErr' = addErr
    /\ genRet' = IF addErr # ErrNone THEN "nil" ELSE IF last THEN "list" ELSE genRet
    /\ UNCHANGED <<now, forUserID, generatedAt, lastOp, followings, hop,
                   recentFollowedUsers, ctxErr, svc, other>>

\* step 3, one pass of the range loop, for the key targetUserID the runtime
\* picks: CountRecentPosts returns (count, err), the candidate is built and
\* offered to the list; after the last key the call returns the list
BuildCandidate(targetUserID, count, err) ==
    LET followedBy == recentFollowedUsers[targetUserID]
        postCount == IF err # ErrNone THEN 0 ELSE count
        reason == NewRecommendationReason(ReasonFollowedByFollowing, followedBy)
        newErr == NewUserRecommendationError(reason)
        i == Len(recs) + 1
        heap == Append(recs, UserRecommendation(i, targetUserID, reason, postCount, now))
        last == pending = {targetUserID}
    IN
    /\ pc = "step3"
    /\ targetUserID \in pending
    /\ calls' = Append(calls, Call("CountRecentPosts", targetUserID, postCount, err))
    /\ IF newErr # ErrNone
         THEN UNCHANGED <<recs, given, recommendations>>
         ELSE /\ recs' = heap
              /\ given' = Append(given, postCount)
              /\ recommendations' =
                    IF AddRecommendationError(heap, forUserID, recommendations, i) = ErrNone
                      THEN Append(recommendations, i)
                      ELSE recommendations
    /\ pending' = pending \ {targetUserID}
    /\ pc' = IF last THEN "done" ELSE "step3"
    /\ genRet' = IF last THEN "list" ELSE genRet
    /\ UNCHANGED <<now, forUserID, generatedAt, lastOp, followings, hop,
                   recentFollowedUsers, genErr, ctxErr, svc, other>>

\* the deadline of the call's context passes while the call is under way
DeadlinePasses ==
    /\ pc \in {"hop1", "hop2", "step3"}
    /\ ctxErr = ErrNone
    /\ ctxErr' = ErrDeadlineExceeded
    /\ UNCHANGED <<now, recs, given, listVars, lastOp, pc, followings, hop,
                   recentFollowedUsers, pending, calls, genErr, genRet, svc, other>>

\* Two calls of GenerateFollowingBasedRecommendations on one generator. The
\* generator has two fields, its repositories, and the method assigns to
\* neither; list, followings and recentFollowedUsers are locals of the call.
\* The variables above are the locals of the call that runs now, other the
\* locals of the one that waits; both allocate candidates in the one heap.
Frame ==
    [forUserID |-> forUserID, recommendations |-> recommendations,
     generatedAt |-> generatedAt, lastOp |-> lastOp, pc |-> pc,
     followings |-> followings, hop |-> hop,
     recentFollowedUsers |-> recentFollowedUsers, pending |-> pending,
     calls |-> calls, genErr |-> genErr, genRet |-> genRet, ctxErr |-> ctxErr]

\* a call that has not started
IdleFrame ==
    [forUserID |-> 1, recommendations |-> <<>>, generatedAt |-> 0, lastOp |-> NoOp,
     pc |-> "idle", followings |-> <<>>, hop |-> 0, recentFollowedUsers |-> <<>>,
     pending |-> {}, calls |-> <<>>, genErr |-> ErrNone, genRet |-> "nil",
     ctxErr |-> ErrNone]

\* mutant: recentFollowedUsers a field of the generator, one map for all calls
Resume_SharedMap(waiting, running) ==
    [waiting EXCEPT !.recentFollowedUsers = running.recentFollowedUsers]

\* what the waiting call finds in its locals when it runs again: what it
\* left there, whatever the call that ran meanwhile did
Resume(waiting, running) == waiting

\* the scheduler takes the processor from the running call and gives it to
\* the waiting one
Switch ==
    LET f == Resume(other, Frame) IN
    /\ other' = Frame
    /\ forUserID' = f.forUserID
    /\ recommendations' = f.recommendations
    /\ generatedAt' = f.generatedAt
    /\ lastOp' = f.lastOp
    /\ pc' = f.pc
    /\ followings' = f.followings
    /\ hop' = f.hop
    /\ recentFollowedUsers' = f.recentFollowedUsers
    /\ pending' = f.pending
    /\ calls' = f.calls
    /\ genErr' = f.genErr
    /\ genRet' = f.genRet
    /\ ctxErr' = f.ctxErr
    /\ UNCHANGED <<now, recs, given, svc>>

\* ------------------------------------------------ RecommendationService
\* GetFollowingBasedRecommendations(ctx, userID, limit): the parameter is
\* converted, the generator runs (the steps above), the best limit candidates
\* are taken, their user records fetched in one batch, the response assembled.
ErrInvalidUserID == "invalid user id: must be positive"

NewUserIDError(value) == IF value <= 0 THEN ErrInvalidUserID ELSE ErrNone

\* the UserID NewUserID returns beside its error: UserID{} when it refuses
NewUserIDValue(value) == IF value <= 0 THEN 0 ELSE value

\* the loop of SocialGraphRepositoryImpl over the rows found, following_id
\* by following_id: domainID, _ := NewUserID(follow.FollowingID), the error
\* dropped and domainID appended
RowsToUserIDs(follows) == [k \in 1..Len(follows) |-> NewUserIDValue(follows[k])]

\* a Go slice: nil, or a (possibly empty) backing array
NilSlice == [null |-> TRUE, items |-> <<>>]

Slice(items) == [null |-> FALSE, items |-> items]

\* the pair (*dto.RecommendationResponse, error) the service returns
NoResponse == [nil |-> TRUE, Recommendations |-> NilSlice]

Response(list) == [nil |-> FALSE, Recommendations |-> list]

ServiceIdle ==
    [pc |-> "idle", limit |-> 0, top |-> <<>>, resp |-> NoResponse, err |-> ErrNone,
     panicked |-> FALSE]

ServiceReturn(resp, err) == [svc EXCEPT !.pc = "done", !.resp = resp, !.err = err]

UserRecommendationDTO(r) == [UserID |-> r.targetUserID, Score |-> r.score]

\* steps 1 and 2: NewUserID(userID), then the generator is called
ServiceStart(userID, limit) ==
    /\ svc.pc = "idle"
    /\ pc = "idle"
    /\ IF NewUserIDError(userID) # ErrNone
         THEN /\ svc' = ServiceReturn(NoResponse, NewUserIDError(userID))
              /\ UNCHANGED <<listVars, pc>>
         ELSE /\ svc' = [svc EXCEPT !.pc = "generate", !.limit = limit]
              /\ forUserID' = userID
              /\ recommendations' = <<>>
              /\ generatedAt' = now
              /\ pc' = "hop1"
    /\ UNCHANGED <<now, recs, given, lastOp, followings, hop, recentFollowedUsers,
                   pending, calls, genErr, genRet, ctxErr, other>>

\* the response for no recommendation at all
EmptyResponse == Response(Slice(<<>>))

\* the generator has returned; step 3: GetTopN(limit), and the early return
\* when nothing is left
ServiceRank ==
    /\ svc.pc = "generate"
    /\ pc = "done"
    /\ IF genErr # ErrNone
         THEN svc' = ServiceReturn(NoResponse, genErr)
         ELSE \E sorted \in SortSlice(recs, recommendations) :
                IF TopNPanics(sorted, svc.limit)
                  THEN svc' = [svc EXCEPT !.pc = "done", !.panicked = TRUE]
                  ELSE LET topRecommendations == TopNSlice(sorted, svc.limit) IN
                       IF Len(topRecommendations) = 0
                         THEN svc' = ServiceReturn(EmptyResponse, ErrNone)
                         ELSE svc' = [svc EXCEPT !.pc = "userinfo",
                                                 !.top = topRecommendations]
    /\ UNCHANGED <<now, recs, given, listVars, lastOp, pc, followings, hop,
                   recentFollowedUsers, pending, calls, genErr, genRet, ctxErr, other>>

\* mutant: no fallback, the remote client's failure answered with an empty list
RecentPostsOf_NoFallback(client, remote, repo, local, userID) ==
    LET asked == IF client THEN {"remote"} ELSE {} IN
    IF client
      THEN IF remote.err = ErrNone /\ ~remote.posts.null
             THEN [posts |-> Slice(remote.posts.items), asked |-> asked]
             ELSE [posts |-> Slice(<<>>), asked |-> asked]
    ELSE IF ~repo \/ NewUserIDError(userID) # ErrNone
      THEN [posts |-> Slice(<<>>), asked |-> asked]
    ELSE IF local.err = ErrNone /\ ~local.posts.null
      THEN [posts |-> Slice(local.posts.items), asked |-> {"local"}]
    ELSE [posts |-> Slice(<<>>), asked |-> {"local"}]

\* getRecentPosts(ctx, userID, limit) with s.contentClient set or nil (client),
\* s.contentRepo set or nil (repo), and the answers remote and local the two
\* give when asked: the list it returns, and which of the two it asked
RecentPostsOf(client, remote, repo, local, userID) ==
    LET asked == IF client THEN {"remote"} ELSE {} IN
    IF client /\ remote.err = ErrNone /\ ~remote.posts.null
      THEN [posts |-> Slice(remote.posts.items), asked |-> asked]
    ELSE IF ~repo
      THEN [posts |-> Slice(<<>>), asked |-> asked]
    ELSE IF NewUserIDError(userID) # ErrNone
      THEN [posts |-> Slice(<<>>), asked |-> asked]
    ELSE IF local.err = ErrNone /\ ~local.posts.null
      THEN [posts |-> Slice(local.posts.items), asked |-> asked \cup {"local"}]
    ELSE [posts |-> Slice(<<>>), asked |-> asked \cup {"local"}]

getRecentPosts(client, remote, repo, local, userID) ==
    /\ lastOp' = [Op("getRecentPosts", 0, userID, ErrNone, <<>>, FALSE, FALSE)
                     EXCEPT !.input = [client |-> client, remote |-> remote,
                                       repo |-> repo, local |-> local],
                            !.output = RecentPostsOf(client, remote, repo, local, userID)]
    /\ UNCHANGED <<now, recs, given, listVars, genVars>>

\* steps 4 and 5: GetUserInfoBatch answers (the users it has a record of, err);
\* candidates without a record are skipped
ServiceUserInfo(userInfos, err) ==
    LET known == SelectSeq(svc.top, LAMBDA i : recs[i].targetUserID \in userInfos)
        dtos == [k \in 1..Len(known) |-> UserRecommendationDTO(recs[known[k]])]
    IN
    /\ svc.pc = "userinfo"
    /\ svc' = IF err # ErrNone
                THEN ServiceReturn(NoResponse, err)
                ELSE ServiceReturn(Response(Slice(dtos)), ErrNone)
    /\ UNCHANGED <<now, recs, given, listVars, lastOp, pc, followings, hop,
                   recentFollowedUsers, pending, calls, genErr, genRet, ctxErr, other>>

\* ------------------------------------------------------ specifications
\* the state after NewRecommendationList(owner), with no candidate built yet
Init ==
    /\ now = 0
    /\ recs = <<>>
    /\ given = <<>>
    /\ forUserID \in Users
    /\ recommendations = <<>>
    /\ generatedAt = 0
    /\ lastOp = NoOp
    /\ pc = "idle"
    /\ followings = <<>>
    /\ hop = 0
    /\ recentFollowedUsers = <<>>
    /\ pending = {}
    /\ calls = <<>>
    /\ genErr = ErrNone
    /\ genRet = "nil"
    /\ ctxErr = ErrNone
    /\ svc = ServiceIdle
    /\ other = IdleFrame

\* the clock jumps past the lifetime of what was built before
TickList == now < MaxListTicks * ListTickDays * Day /\ Tick(ListTickDays * Day)

\* --- candidates alone: construction from every kind of reason and every
\* count, activity updates, refresh; the target plays no part in any of them
CandidateTargets == {1}

NextCandidate ==
    \/ /\ Len(recs) < MaxCandRecs
       /\ \E t \in CandidateTargets, r \in ReasonInputs, c \in CountInputs :
             NewUserRecommendation(t, r, c)
    \/ \E i \in 1..Len(recs), c \in CountInputs : UpdatePostCount(i, c)
    \/ \E i \in 1..Len(recs) : Refresh(i)

SpecCandidate == Init /\ [][NextCandidate]_vars

\* --- the life of one candidate against the clock, second by second and day
\* by day: built at any moment, refreshed, asked whether it has expired
ListReasonInputs ==
    {NewRecommendationReason(ReasonFollowedByFollowing, e) :
        e \in {x \in EvidenceInputs : Len(x) <= MaxListEvidence}}

ListCountInputs == 0..MaxListCount

TickSecond == now % Day < MaxSecs /\ Tick(1)

TickDay == now \div Day < MaxDays /\ Tick(Day)

NextExpiry ==
    \/ /\ recs = <<>>
       /\ \E t \in Users, r \in ListReasonInputs, c \in ListCountInputs :
             NewUserRecommendation(t, r, c)
    \/ \E i \in 1..Len(recs) : Refresh(i)
    \/ \E i \in 1..Len(recs) : IsExpiredCall(i)
    \/ TickSecond
    \/ TickDay

SpecExpiry == Init /\ [][NextExpiry]_vars

\* --- one list and the candidates offered to it

NextList ==
    \/ /\ Len(recs) < MaxListRecs
       /\ \E t \in Users, r \in ListReasonInputs, c \in ListCountInputs :
             NewUserRecommendation(t, r, c)
    \/ \E i \in 1..Len(recs) : AddRecommendation(i)
    \/ \E n \in (0 - 1)..MaxTopN : GetTopN(n)
    \/ RemoveExpired
    \/ \E m \in MinScoreInputs : FilterByMinScore(m)
    \/ Count
    \/ IsEmpty
    \/ All
    \/ \E i \in 1..Len(recs), c \in ListCountInputs : UpdatePostCount(i, c)
    \/ \E i \in 1..Len(recs) : Refresh(i)
    \/ TickList

Spec == Init /\ [][NextList]_vars

\* --- one list, its queries, and a caller that edits the slices returned
NextCopies ==
    \/ /\ Len(recs) < MaxListRecs
       /\ \E t \in Users, r \in ListReasonInputs, c \in ListCountInputs :
             NewUserRecommendation(t, r, c)
    \/ \E i \in 1..Len(recs) : AddRecommendation(i)
    \/ \E n \in (0 - 1)..MaxTopN : GetTopN(n)
    \/ All
    \/ Count
    \/ IsEmpty
    \/ \E k \in 1..MaxListRecs, i \in 1..MaxListRecs : CallerOverwrites(k, i)
    \/ \E a \in 1..MaxListRecs, b \in 1..MaxListRecs : CallerSwaps(a, b)
    \/ \E n \in 0..MaxListRecs : CallerTruncates(n)

SpecCopies == Init /\ [][NextCopies]_vars

\* --- one call of the generator against repositories that answer as they like
\* while the context is live, and with the context's error once its deadline
\* has passed (every query is made under r.db.WithContext(ctx))
Failures == IF ctxErr # ErrNone THEN {ctxErr} ELSE UpstreamErrors \ {ErrDeadlineExceeded}

Responses(S) ==
    (IF ctxErr # ErrNone THEN {} ELSE {<<x, ErrNone>> : x \in S})
        \cup {<<<<>>, e>> : e \in Failures}

NextGenerate ==
    \/ \E u \in Users : GenerateStart(u)
    \/ \E r \in Responses(FollowingsInputs) : GetFollowings(r[1], r[2])
    \/ \E r \in Responses(RecentInputs) : GetRecentFollowings(r[1], r[2])
    \/ \E t \in Users, c \in PostCountInputs :
          ctxErr = ErrNone /\ BuildCandidate(t, c, ErrNone)
    \/ \E t \in Users, e \in Failures : BuildCandidate(t, 0, e)
    \/ DeadlinePasses

SpecGenerate == Init /\ [][NextGenerate]_vars

\* --- one call of the service: the generator against the same repositories,
\* with fewer connections, then the ranking and the user records
ServiceUserInputs == 0..MaxSvcUser

LimitInputs == (0 - 1)..MaxSvcLimit

NextService ==
    \/ \E u \in ServiceUserInputs, l \in LimitInputs : ServiceStart(u, l)
    \/ \E r \in Responses(SeqsUpTo(Users, MaxSvcFollowings)) : GetFollowings(r[1], r[2])
    \/ \E r \in Responses(RecentInputs) : GetRecentFollowings(r[1], r[2])
    \/ \E t \in Users, c \in PostCountInputs :
          ctxErr = ErrNone /\ BuildCandidate(t, c, ErrNone)
    \/ \E t \in Users, e \in Failures : BuildCandidate(t, 0, e)
    \/ DeadlinePasses
    \/ ServiceRank
    \/ \E known \in SUBSET {recs[i].targetUserID : i \in Range(svc.top)} :
          ServiceUserInfo(known, ErrNone)
    \/ \E e \in Failures : ServiceUserInfo({}, e)

SpecService == Init /\ [][NextService]_vars

\* --- getRecentPosts alone, under every configuration of its two sources and
\* every answer they may give: an error, no error with a nil list, no error
\* with a list of posts
PostLists == {Slice(l) : l \in SeqsUpTo(1..MaxPostID, MaxPostList)} \cup {NilSlice}

PostAnswers ==
    {[posts |-> l, err |-> ErrNone] : l \in PostLists}
        \cup {[posts |-> NilSlice, err |-> e] : e \in UpstreamErrors \ {ErrDeadlineExceeded}}

NextPosts ==
    \E client \in BOOLEAN, remote \in PostAnswers, repo \in BOOLEAN, local \in PostAnswers,
       userID \in ServiceUserInputs :
        getRecentPosts(client, remote, repo, local, userID)

SpecPosts == Init /\ [][NextPosts]_vars

\* --- the worked example and its neighbours: A asks; B and C are the
\* connections the graph may report for A; E and G are the users B and C may
\* have followed lately; E and G have posted five times or not at all; the
\* best candidate of the list returned is then asked for
Scenario == [A |-> 1, B |-> 2, C |-> 3, E |-> 4, G |-> 5]

ScenarioFollowings == SeqsUpTo({Scenario.B, Scenario.C}, MaxFollowings)

ScenarioRecent == SeqsUpTo({Scenario.E, Scenario.G}, MaxRecent)

ScenarioPosts == {0, 5}

NextScenario ==
    \/ GenerateStart(Scenario.A)
    \/ \E f \in ScenarioFollowings : GetFollowings(f, ErrNone)
    \/ \E r \in ScenarioRecent : GetRecentFollowings(r, ErrNone)
    \/ \E t \in {Scenario.E, Scenario.G}, c \in ScenarioPosts :
          BuildCandidate(t, c, ErrNone)
    \/ pc = "done" /\ genErr = ErrNone /\ GetTopN(1)

SpecScenario == Init /\ [][NextScenario]_vars

\* --- the worked example run twice, one call after the other has returned
\* and its list was ranked, against repositories that answer as they like
NextTwice ==
    \/ GenerateStart(Scenario.A)
    \/ \E f \in SeqsUpTo({Scenario.B}, MaxTwiceFollowings) : GetFollowings(f, ErrNone)
    \/ \E r \in ScenarioRecent : GetRecentFollowings(r, ErrNone)
    \/ \E t \in {Scenario.E, Scenario.G}, c \in ScenarioPosts :
          BuildCandidate(t, c, ErrNone)
    \/ \E k \in 1..MaxTopN :
          pc = "done" /\ genErr = ErrNone /\ lastOp.op # "GetTopN" /\ GetTopN(k)
    \/ pc = "done" /\ lastOp.op = "GetTopN" /\ other.pc = "idle" /\ Switch

SpecTwice == Init /\ [][NextTwice]_vars

\* --- two calls on one generator at the same time, each for one of the
\* users ConcUsers, who may follow the user after them, who may have followed
\* them of late: the scheduler switches between the calls at any point, and
\* the repositories answer each call as they like
ConcUsers == 1..MaxConcUser

NextConcurrent ==
    \/ \E u \in ConcUsers : GenerateStart(u)
    \/ \E r \in Responses(SeqsUpTo({MaxConcUser + 1}, MaxConcFollowings)) :
          GetFollowings(r[1], r[2])
    \/ \E r \in Responses(SeqsUpTo(ConcUsers, MaxConcRecent)) :
          GetRecentFollowings(r[1], r[2])
    \/ \E t \in Users, c \in 0..MaxConcPosts : BuildCandidate(t, c, ErrNone)
    \/ \E t \in Users, e \in Failures : BuildCandidate(t, 0, e)
    \/ Switch

SpecConcurrent == Init /\ [][NextConcurrent]_vars

\* --- one call of the generator against SocialGraphRepositoryImpl over a
\* follows table whose following_id column holds any integer
FollowingIDs == (0 - 1)..MaxRowID

NextRows ==
    \/ \E u \in Users : GenerateStart(u)
    \/ \E follows \in SeqsUpTo(FollowingIDs, MaxRows) :
          GetFollowings(RowsToUserIDs(follows), ErrNone)
    \/ \E follows \in SeqsUpTo(FollowingIDs, MaxRows) :
          GetRecentFollowings(RowsToUserIDs(follows), ErrNone)
    \/ \E t \in 0..MaxRowID, c \in PostCountInputs : BuildCandidate(t, c, ErrNone)

SpecRows == Init /\ [][NextRows]_vars

\* =====================================================================
\* Properties of the list (Spec)
\* =====================================================================
Held == Range(recommendations)

Target(i) == recs[i].targetUserID

Score(i) == recs[i].score

\* position of pointer i in the list (0: not held)
PosOf(l, i) == IF \E k \in 1..Len(l) : l[k] = i
                 THEN CHOOSE k \in 1..Len(l) : l[k] = i
                 ELSE 0

\* C1: no candidate held by a list owned by u, and none returned by All or
\* GetTopN, has target u, whatever calls were made on the list.
C1_NoSelfRecommendation ==
    /\ \A i \in Held : Target(i) # forUserID
    /\ lastOp.op \in {"All", "GetTopN"} =>
          \A k \in 1..Len(lastOp.ret) : Target(lastOp.ret[k]) # forUserID

\* a candidate for the owner was offered to a list that holds another one, and refused
C1_Witness ==
    /\ lastOp.op = "AddRecommendation"
    /\ Target(lastOp.rec) = forUserID
    /\ Len(recommendations) >= 1

\* C2: no two candidates held by the list have the same target.
C2_NoDuplicates ==
    \A a, b \in 1..Len(recommendations) :
        a # b => Target(recommendations[a]) # Target(recommendations[b])

\* a second object for a target already held was offered
C2_Witness ==
    /\ lastOp.op = "AddRecommendation"
    /\ lastOp.rec \notin Held
    /\ \E i \in Held : Target(i) = Target(lastOp.rec)

\* One AddRecommendation step (C3): it returns the self error for the owner's own target,
\* the duplicate error for a target already held, leaving the list as it was
\* in both cases; otherwise it appends the candidate at the end, and Count
\* grows by one.
C3_AddRecommendationStep ==
    LET i == lastOp'.rec
        dup == \E k \in Held : Target(k) = Target(i)
    IN lastOp'.op = "AddRecommendation" =>
         /\ Target(i) = forUserID =>
               lastOp'.err = ErrCannotRecommendSelf /\ recommendations' = recommendations
         /\ Target(i) # forUserID /\ dup =>
               lastOp'.err = ErrDuplicateRecommendation /\ recommendations' = recommendations
         /\ Target(i) # forUserID /\ ~dup =>
               /\ lastOp'.err = ErrNone
               /\ Len(recommendations') = Len(recommendations) + 1
               /\ recommendations' = recommendations \o <<i>>

\* C3: every AddRecommendation step refuses the owner's own target and a
\* target already held without touching the list, and otherwise appends.
C3_AddRecommendation == [][C3_AddRecommendationStep]_vars

\* a duplicate was refused although its target is not the one held last
C3_Witness ==
    /\ lastOp.op = "AddRecommendation"
    /\ lastOp.err = ErrDuplicateRecommendation
    /\ Len(recommendations) = 2
    /\ Target(recommendations[1]) = Target(lastOp.rec)

\* C7: for k >= 0, GetTopN(k) returns min(k, Count()) candidates of the list,
\* in non-increasing order of score, and no candidate left out has a higher
\* score than one returned.
C7_TopNMonotone ==
    (lastOp.op = "GetTopN" /\ lastOp.arg >= 0) =>
        LET ret == lastOp.ret IN
        /\ ~lastOp.panicked
        /\ Len(ret) = Min(lastOp.arg, Len(recommendations))
        /\ Range(ret) \subseteq Held
        /\ \A a, b \in 1..Len(ret) : a < b => ret[a] # ret[b] /\ Score(ret[a]) >= Score(ret[b])
        /\ \A i \in Held \ Range(ret) : \A j \in Range(ret) : Score(i) <= Score(j)

\* the list holds two candidates, the better one added last, and one was asked for
C7_Witness ==
    /\ lastOp.op = "GetTopN"
    /\ lastOp.arg = 1
    /\ Len(recommendations) = 2
    /\ Score(recommendations[1]) < Score(recommendations[2])
    /\ lastOp.ret = <<recommendations[2]>>

\* C8: GetTopN breaks score ties by insertion order: of two held candidates
\* of equal score, the one added earlier comes first in the result, and is the
\* one kept when the truncation separates them.
C8_TiesByInsertionOrder ==
    (lastOp.op = "GetTopN" /\ ~lastOp.panicked) =>
        \A a, b \in 1..Len(recommendations) :
            (a < b /\ Score(recommendations[a]) = Score(recommendations[b])) =>
                LET pa == PosOf(lastOp.ret, recommendations[a])
                    pb == PosOf(lastOp.ret, recommendations[b])
                IN pb # 0 => (pa # 0 /\ pa < pb)

\* One step of a query, or of the holder of a returned slice (C21): the list
\* holds the same pointers in the same order afterwards, and the objects
\* behind them are as they were.
C21_QueryStep ==
    lastOp'.op \in {"GetTopN", "All", "Count", "IsEmpty"} =>
        /\ recommendations' = recommendations
        /\ recs' = recs
        /\ forUserID' = forUserID
        /\ generatedAt' = generatedAt

\* C21: GetTopN, All, Count and IsEmpty leave the list as it was, and so does
\* every overwrite, reordering or truncation of a slice GetTopN or All returned.
C21_QueriesLeaveListAlone == [][C21_QueryStep]_vars

\* the slice All returned for a list of two was reordered by its holder
C21_Witness ==
    /\ lastOp.op = "All"
    /\ Len(recommendations) = 2
    /\ lastOp.ret = <<recommendations[2], recommendations[1]>>

\* l is what remains of m when the entries outside keep are dropped: the
\* entries of m in keep, each once, in the order they have in m
Remains(l, m, keep) ==
    /\ Range(l) = Range(m) \cap keep
    /\ \A a, b \in 1..Len(l) : a < b => l[a] # l[b] /\ PosOf(m, l[a]) < PosOf(m, l[b])

\* One RemoveExpired step (C22): the list keeps exactly the candidates that
\* have not expired at the time of the call, in the order they had, and no
\* candidate is altered.
C22_RemoveExpiredStep ==
    lastOp'.op = "RemoveExpired" =>
        /\ Remains(recommendations', recommendations,
                   {i \in 1..Len(recs) : ~(now > recs[i].expiresAt)})
        /\ \A k \in 1..Len(recommendations') : now <= recs[recommendations'[k]].expiresAt
        /\ recs' = recs
        /\ now' = now

\* C22: every RemoveExpired step removes exactly the candidates with
\* now > expiresAt and keeps the others in their order.
C22_RemoveExpired == [][C22_RemoveExpiredStep]_vars

\* of two candidates held, the one added first had expired and was removed
C22_Witness ==
    /\ lastOp.op = "RemoveExpired"
    /\ Len(lastOp.before) = 2
    /\ recommendations = <<lastOp.before[2]>>
    /\ now > recs[lastOp.before[1]].expiresAt

\* One FilterByMinScore step (C23): the list keeps exactly the candidates
\* with score >= min, in the order they had; and a second step with the same
\* min right after the first changes nothing.
C23_FilterByMinScoreStep ==
    lastOp'.op = "FilterByMinScore" =>
        /\ Remains(recommendations', recommendations,
                   {i \in 1..Len(recs) : ~(recs[i].score < lastOp'.arg)})
        /\ \A k \in 1..Len(recommendations') :
              recs[recommendations'[k]].score >= lastOp'.arg
        /\ recs' = recs
        /\ (lastOp.op = "FilterByMinScore" /\ lastOp.arg = lastOp'.arg) =>
              recommendations' = recommendations

\* C23: every FilterByMinScore(min) step removes exactly the candidates with
\* score < min, keeps the others in their order, and is idempotent.
C23_FilterByMinScore == [][C23_FilterByMinScoreStep]_vars

\* of two candidates held, the first scored below the minimum and was
\* removed while the second, scoring exactly the minimum, stayed
C23_Witness ==
    /\ lastOp.op = "FilterByMinScore"
    /\ Len(lastOp.before) = 2
    /\ recommendations = <<lastOp.before[2]>>
    /\ recs[lastOp.before[1]].score < lastOp.arg
    /\ recs[lastOp.before[2]].score = lastOp.arg

\* C18: neither GetTopN nor All returns a candidate that has expired at the
\* time of the call (now > expiresAt), whether or not RemoveExpired was
\* called before.
C18_ExpiredNeverReturned ==
    lastOp.op \in {"GetTopN", "All"} =>
        \A k \in 1..Len(lastOp.ret) : ~(now > recs[lastOp.ret[k]].expiresAt)

\* =====================================================================
\* Properties of one candidate (SpecCandidate, and SpecExpiry for C9)
\* =====================================================================
Built == lastOp.op = "NewUserRecommendation" /\ lastOp.rec # 0

\* One NewUserRecommendation step (C4): it fails with
\* ErrNoReasonForRecommendation, and builds no candidate, exactly when the reason's evidence is empty, whatever
\* the kind of the reason and the activity count.
C4_NoJustificationStep ==
    lastOp'.op = "NewUserRecommendation" =>
        IF Len(lastOp'.reason.relatedUsers) = 0
          THEN /\ lastOp'.err = ErrNoReasonForRecommendation
               /\ lastOp'.rec = 0
               /\ recs' = recs
          ELSE /\ lastOp'.err = ErrNone
               /\ lastOp'.rec = Len(recs) + 1
               /\ Len(recs') = Len(recs) + 1
               /\ recs'[lastOp'.rec].reason = lastOp'.reason

\* C4: every NewUserRecommendation step fails with
\* ErrNoReasonForRecommendation exactly when the evidence is empty.
C4_NoJustification == [][C4_NoJustificationStep]_vars

\* a reason of another kind than followed-by-following, without evidence, was refused
C4_Witness ==
    /\ lastOp.op = "NewUserRecommendation"
    /\ lastOp.reason.reasonType = ReasonPopularInNetwork
    /\ lastOp.reason.relatedUsers = <<>>
    /\ lastOp.err = ErrNoReasonForRecommendation

\* the weight the reason's kind gives, written out
KindWeight(r) ==
    IF r.reasonType = ReasonFollowedByFollowing THEN 10 * Len(r.relatedUsers)
    ELSE IF r.reasonType = ReasonPopularInNetwork THEN 5 ELSE 1

\* C5: a candidate built from reason r and activity count a >= 0 has score
\* weight(r) + 2a; three followers and five posts give 40.
C5_ScoreDeterminism ==
    (Built /\ lastOp.arg >= 0) =>
        /\ recs[lastOp.rec].score = KindWeight(lastOp.reason) + lastOp.arg * 2
        /\ (/\ lastOp.reason.reasonType = ReasonFollowedByFollowing
            /\ Len(lastOp.reason.relatedUsers) = 3
            /\ lastOp.arg = 5) => recs[lastOp.rec].score = 40

\* the example: three followers, five posts
C5_Witness ==
    /\ Built
    /\ lastOp.reason.reasonType = ReasonFollowedByFollowing
    /\ Len(lastOp.reason.relatedUsers) = 3
    /\ lastOp.arg = 5
    /\ recs[lastOp.rec].score = 40

\* C6 as claimed: the count is the last one given and the score is
\* weight + 2 * count, for every integer count.
C6_ScoreIsWeightPlusTwiceCount ==
    \A i \in 1..Len(recs) :
        /\ recs[i].recentPostCount = given[i]
        /\ recs[i].score = KindWeight(recs[i].reason) + recs[i].recentPostCount * 2

\* C6 amended: the count is the last one given; the score is weight + 2 * count
\* when that count is positive or zero, and the bare weight when it is negative.
C6_ScoreConsistent ==
    \A i \in 1..Len(recs) :
        /\ recs[i].recentPostCount = given[i]
        /\ recs[i].recentPostCount >= 0 =>
              recs[i].score = KindWeight(recs[i].reason) + recs[i].recentPostCount * 2
        /\ recs[i].recentPostCount < 0 => recs[i].score = KindWeight(recs[i].reason)

\* a candidate built with one count was given another, positive one
C6_Witness ==
    /\ lastOp.op = "UpdatePostCount"
    /\ lastOp.arg > 0
    /\ recs[lastOp.rec].recentPostCount = lastOp.arg
    /\ recs[lastOp.rec].score # KindWeight(recs[lastOp.rec].reason)

\* One Refresh step (C24): the candidate's expiresAt becomes now + 7 days,
\* so that it is not expired right afterwards; its id, target, reason, score,
\* activity count and createdAt, and every other candidate, stay as they were.
C24_RefreshStep ==
    lastOp'.op = "Refresh" =>
        LET i == lastOp'.rec IN
        /\ now' = now
        /\ Len(recs') = Len(recs)
        /\ recs'[i].expiresAt = now + 7 * Day
        /\ ~(now' > recs'[i].expiresAt)
        /\ recs'[i].id = recs[i].id
        /\ recs'[i].targetUserID = recs[i].targetUserID
        /\ recs'[i].reason = recs[i].reason
        /\ recs'[i].score = recs[i].score
        /\ recs'[i].recentPostCount = recs[i].recentPostCount
        /\ recs'[i].createdAt = recs[i].createdAt
        /\ \A j \in 1..Len(recs) : j # i => recs'[j] = recs[j]
        /\ recommendations' = recommendations

\* C24: every Refresh step sets expiresAt to now + 7 days and changes
\* nothing else.
C24_Refresh == [][C24_RefreshStep]_vars

\* a candidate that had expired a second ago was refreshed
C24_Witness ==
    /\ lastOp.op = "Refresh"
    /\ now = lastOp.before[1] + 1
    /\ recs[lastOp.rec].expiresAt = now + 7 * Day
    /\ recs[lastOp.rec].createdAt < now

\* C9: a candidate built at t0 expires at t0 + 7 days, and IsExpired at time
\* now answers now > expiresAt: no at t0 + 6 days and at t0 + 7 days sharp,
\* yes one second later.
C9_Expiry ==
    /\ Built => /\ recs[lastOp.rec].createdAt = now
                /\ recs[lastOp.rec].expiresAt = now + 7 * Day
    /\ lastOp.op = "IsExpired" =>
          LET r == recs[lastOp.rec] IN
          /\ lastOp.flag <=> now > r.expiresAt
          /\ r.expiresAt = r.createdAt + 7 * Day =>
                /\ now = r.createdAt + 6 * Day => ~lastOp.flag
                /\ now = r.createdAt + 7 * Day => ~lastOp.flag
                /\ now = r.createdAt + 7 * Day + 1 => lastOp.flag

\* asked one second after the seventh day, never refreshed
C9_Witness ==
    /\ lastOp.op = "IsExpired"
    /\ recs[lastOp.rec].expiresAt = recs[lastOp.rec].createdAt + 7 * Day
    /\ now = recs[lastOp.rec].createdAt + 7 * Day + 1
    /\ lastOp.flag

\* =====================================================================
\* Properties of the generator (SpecGenerate)
\* =====================================================================
\* C10: when the hop-1 fetch GetFollowings fails, the call fails with that
\* same error, returns no list, and issues no other lookup.
C10_Hop1FailureIsFatal ==
    (Len(calls) >= 1 /\ calls[1].err # ErrNone) =>
        /\ calls[1].fn = "GetFollowings"
        /\ pc = "done"
        /\ genErr = calls[1].err
        /\ genRet = "nil"
        /\ Len(calls) = 1

\* the call has returned the error of its hop-1 fetch
C10_Witness ==
    /\ pc = "done"
    /\ Len(calls) = 1
    /\ calls[1].fn = "GetFollowings"
    /\ calls[1].err \in UpstreamErrors
    /\ genErr = calls[1].err

\* C11: when GetFollowings(forUser) succeeds with an empty list, the call
\* returns an empty list owned by forUser and no error, and issues no hop-2
\* and no activity lookup.
C11_NoFollowingsNoCandidates ==
    (Len(calls) >= 1 /\ calls[1].err = ErrNone /\ calls[1].resp = <<>>) =>
        /\ calls[1].fn = "GetFollowings"
        /\ pc = "done"
        /\ genErr = ErrNone
        /\ genRet = "list"
        /\ recommendations = <<>>
        /\ forUserID = calls[1].user
        /\ Len(calls) = 1

\* the call has returned after an empty hop-1 answer
C11_Witness ==
    /\ pc = "done"
    /\ calls = <<Call("GetFollowings", forUserID, <<>>, ErrNone)>>
    /\ genRet = "list"

\* positions in the call log of the hop-2 lookups that succeeded, and failed
RecentOk ==
    {k \in 1..Len(calls) : calls[k].fn = "GetRecentFollowings" /\ calls[k].err = ErrNone}

RecentFailed ==
    {k \in 1..Len(calls) : calls[k].fn = "GetRecentFollowings" /\ calls[k].err # ErrNone}

\* the users the successful hop-2 lookups reported
Reported == UNION {Range(calls[k].resp) : k \in RecentOk}

HeldTargets == {Target(i) : i \in Held}

Evidence(i) == recs[i].reason.relatedUsers

\* C12: when the hop-1 fetch succeeded, the call returns a list and no error
\* whichever hop-2 lookups failed; the candidates are exactly the users other
\* than forUser that the successful lookups reported; every connection in a
\* candidate's evidence comes from a successful lookup that reported the
\* candidate, and a connection whose lookups all failed is in no evidence.
C12_PartialFailureTolerance ==
    (pc = "done" /\ Len(calls) >= 1 /\ calls[1].err = ErrNone) =>
        /\ genErr = ErrNone
        /\ genRet = "list"
        /\ HeldTargets = Reported \ {forUserID}
        /\ \A i \in Held : \A f \in Range(Evidence(i)) :
              /\ \E k \in RecentOk :
                    calls[k].user = f /\ Target(i) \in Range(calls[k].resp)
              /\ ~(\A k \in 1..Len(calls) :
                     (calls[k].fn = "GetRecentFollowings" /\ calls[k].user = f)
                        => k \in RecentFailed)

\* of two connections the first one's lookup failed, and the second one's
\* reported a user that the list now holds
C12_Witness ==
    /\ pc = "done"
    /\ Len(followings) = 2
    /\ followings[1] # followings[2]
    /\ 2 \in RecentFailed
    /\ 3 \in RecentOk
    /\ recommendations # <<>>

\* positions in the call log of the activity lookups
CountCalls == {k \in 1..Len(calls) : calls[k].fn = "CountRecentPosts"}

\* C13: a candidate whose CountRecentPosts lookup failed is held by the list
\* with activity count 0 and the bare weight of its reason as score; every
\* other candidate looked up so far is held too, and the call ends with a
\* list and no error.
C13_ActivityFailureDegrades ==
    /\ \A k \in CountCalls : calls[k].user # forUserID =>
          \E i \in Held :
              /\ Target(i) = calls[k].user
              /\ calls[k].err # ErrNone =>
                    /\ recs[i].recentPostCount = 0
                    /\ recs[i].score = KindWeight(recs[i].reason)
                    /\ recs[i].score = 10 * Len(Evidence(i))
    /\ (pc = "done" /\ \E k \in CountCalls : calls[k].err # ErrNone) =>
          genErr = ErrNone /\ genRet = "list"

\* the activity lookup failed for one of two candidates while the database
\* answered for the other, and the call has returned both
C13_Witness ==
    /\ pc = "done"
    /\ Len(recommendations) = 2
    /\ \E k \in CountCalls : calls[k].err # ErrNone /\ calls[k].user # forUserID
    /\ \E k \in CountCalls : calls[k].err = ErrNone /\ calls[k].resp > 0

\* C15: a call during which the deadline passed, so that a lookup issued
\* afterwards ended with context.DeadlineExceeded, fails with that error and
\* returns no list, also when the hop-1 fetch had succeeded before.
C15_DeadlineFailsFast ==
    (pc = "done" /\ \E k \in 1..Len(calls) : calls[k].err = ErrDeadlineExceeded) =>
        /\ ctxErr = ErrDeadlineExceeded
        /\ genErr = ErrDeadlineExceeded
        /\ genRet = "nil"

\* C16: no candidate of the list the call returns is one of the connections
\* GetFollowings(forUser) reported, also when one of these connections
\* lately followed another one.
C16_BeyondExistingConnections ==
    (pc = "done" /\ genRet = "list") =>
        \A i \in Held : Target(i) \notin Range(calls[1].resp)

\* the connections with a successful hop-2 lookup that reported u
Followers(u) == {calls[k].user : k \in {j \in RecentOk : u \in Range(calls[j].resp)}}

\* C19: the evidence of every candidate of the list the call returns is the
\* set of connections whose successful lookup reported it, each once, and its
\* weight is 10 times their number, also when GetFollowings names a
\* connection twice or a lookup reports a user twice.
C19_EvidenceIsASet ==
    (pc = "done" /\ genRet = "list") =>
        \A i \in Held :
            /\ Range(Evidence(i)) = Followers(Target(i))
            /\ Len(Evidence(i)) = Cardinality(Followers(Target(i)))
            /\ Weight(recs[i].reason) = 10 * Cardinality(Followers(Target(i)))

\* positions in the call log of the hop-2 lookups
RecentCalls == {k \in 1..Len(calls) : calls[k].fn = "GetRecentFollowings"}

\* C25: the calls of one run are: GetFollowings(forUser), once and first; if
\* it succeeded, one GetRecentFollowings for each entry of its answer, in the
\* order of the answer, whether or not the one before failed; then, all hop-2
\* lookups made, one CountRecentPosts for each user they reported, no user
\* twice; and nothing else.
C25_CallPlan ==
    /\ Len(calls) >= 1 =>
          /\ calls[1].fn = "GetFollowings"
          /\ calls[1].user = forUserID
          /\ calls[1].err # ErrNone => Len(calls) = 1
    /\ \A k \in 2..Len(calls) : calls[k].fn \in {"GetRecentFollowings", "CountRecentPosts"}
    /\ \A k \in RecentCalls :
          /\ k - 1 \in 1..Len(calls[1].resp)
          /\ calls[k].user = calls[1].resp[k - 1]
    /\ \A k \in CountCalls :
          /\ Cardinality(RecentCalls) = Len(calls[1].resp)
          /\ \A j \in RecentCalls : j < k
          /\ calls[k].user \in Reported
          /\ \A j \in CountCalls : j # k => calls[j].user # calls[k].user
    /\ (pc = "done" /\ Len(calls) >= 1 /\ calls[1].err = ErrNone) =>
          /\ Cardinality(RecentCalls) = Len(calls[1].resp)
          /\ {calls[k].user : k \in CountCalls} = Reported
          /\ Len(calls) = 1 + Len(calls[1].resp) + Cardinality(Reported)

\* a run over two connections, the lookup of the first failed, the second
\* reported two users, and both had their activity looked up
C25_Witness ==
    /\ pc = "done"
    /\ Len(calls) = 5
    /\ calls[2].fn = "GetRecentFollowings"
    /\ calls[2].err # ErrNone
    /\ calls[3].fn = "GetRecentFollowings"
    /\ calls[3].err = ErrNone
    /\ Cardinality(Reported) = 2

\* C20: when the hop-2 lookups discovered forUser itself, the call still
\* returns a list and no error; the list does not hold forUser and holds
\* every other user discovered.
C20_SelfSkippedOnly ==
    (pc = "done" /\ forUserID \in DOMAIN recentFollowedUsers) =>
        /\ genErr = ErrNone
        /\ genRet = "list"
        /\ forUserID \notin HeldTargets
        /\ \A u \in DOMAIN recentFollowedUsers : u # forUserID => u \in HeldTargets
        /\ Len(recommendations) = Cardinality(DOMAIN recentFollowedUsers) - 1

\* forUser was discovered along with another user, looked up first, and the
\* call has returned the other one
C20_Witness ==
    /\ pc = "done"
    /\ Cardinality(DOMAIN recentFollowedUsers) = 2
    /\ forUserID \in DOMAIN recentFollowedUsers
    /\ calls[Len(calls) - 1] = Call("CountRecentPosts", forUserID, 1, ErrNone)
    /\ Len(recommendations) = 1

\* =====================================================================
\* The worked example (SpecScenario)
\* =====================================================================
\* generate(A) has run against: A follows [B, C]; B lately followed [E], C
\* lately followed [E, G]; E posted 5 times, G not at all (the two activity
\* lookups come in the order the map yields its keys)
ScenarioRan ==
    /\ pc = "done"
    /\ forUserID = Scenario.A
    /\ Len(calls) = 5
    /\ calls[1] = Call("GetFollowings", Scenario.A, <<Scenario.B, Scenario.C>>, ErrNone)
    /\ calls[2] = Call("GetRecentFollowings", Scenario.B, <<Scenario.E>>, ErrNone)
    /\ calls[3] = Call("GetRecentFollowings", Scenario.C, <<Scenario.E, Scenario.G>>, ErrNone)
    /\ {calls[4], calls[5]} = {Call("CountRecentPosts", Scenario.E, 5, ErrNone),
                               Call("CountRecentPosts", Scenario.G, 0, ErrNone)}

\* C14: in the worked example the call returns exactly two candidates, E
\* with evidence {B, C}, weight 20 and score 30, and G with evidence {C},
\* weight 10 and score 10; GetTopN(1) of that list returns [E].
C14_Scenario ==
    ScenarioRan =>
        /\ genErr = ErrNone
        /\ genRet = "list"
        /\ Len(recommendations) = 2
        /\ \E e, g \in Held :
              /\ Target(e) = Scenario.E
              /\ Len(Evidence(e)) = 2
              /\ Range(Evidence(e)) = {Scenario.B, Scenario.C}
              /\ Weight(recs[e].reason) = 20
              /\ Score(e) = 30
              /\ Target(g) = Scenario.G
              /\ Len(Evidence(g)) = 1
              /\ Range(Evidence(g)) = {Scenario.C}
              /\ Weight(recs[g].reason) = 10
              /\ Score(g) = 10
        /\ lastOp.op = "GetTopN" =>
              /\ lastOp.arg = 1
              /\ ~lastOp.panicked
              /\ Len(lastOp.ret) = 1
              /\ Target(lastOp.ret[1]) = Scenario.E

\* the example has run, G's activity looked up first, and the best candidate was asked for
C14_Witness ==
    /\ ScenarioRan
    /\ calls[4].user = Scenario.G
    /\ lastOp.op = "GetTopN"

C17_EmptyNotNull ==
    (svc.pc = "done" /\ pc = "done") =>
        /\ (genErr = ErrNone /\ genRet = "list" /\ recommendations = <<>>) =>
              /\ ~svc.panicked
              /\ svc.err = ErrNone
              /\ ~svc.resp.nil
              /\ ~svc.resp.Recommendations.null
              /\ svc.resp.Recommendations.items = <<>>
        /\ calls[1].err # ErrNone =>
              /\ ~svc.panicked
              /\ svc.err = calls[1].err
              /\ svc.resp.nil

\* C27: GetTopN(n) returns normally for every integer n, zero and negative
\* included, with at most max(n, 0) candidates; and the service, called with
\* limit <= 0 for a user who has candidates, completes without a runtime
\* failure.
C27_TopNTotal ==
    /\ lastOp.op = "GetTopN" =>
          /\ ~lastOp.panicked
          /\ Len(lastOp.ret) <= (IF lastOp.arg > 0 THEN lastOp.arg ELSE 0)
    /\ (svc.pc \in {"userinfo", "done"} /\ svc.limit <= 0 /\ recommendations # <<>>) =>
          /\ ~svc.panicked
          /\ svc.top = <<>>

\* =====================================================================
\* Properties of two calls on one generator (SpecTwice)
\* =====================================================================
\* the targets and scores of a ranked slice, in its order
TopOf(ret) == [k \in 1..Len(ret) |-> <<Target(ret[k]), Score(ret[k])>>]

\* C28: two runs of the generator for the same user, each followed by
\* GetTopN(k) with the same k, in which every collaborator gave the same
\* answers, return the same targets with the same scores in the same order,
\* candidates of equal score included.
C28_Determinism ==
    (/\ pc = "done" /\ lastOp.op = "GetTopN"
     /\ other.pc = "done" /\ other.lastOp.op = "GetTopN"
     /\ forUserID = other.forUserID
     /\ lastOp.arg = other.lastOp.arg
     /\ Range(calls) = Range(other.calls))
        => TopOf(lastOp.ret) = TopOf(other.lastOp.ret)

\* the connections a call's own successful hop-2 lookups recorded for user
\* t, in the order of the lookups, one entry for each time t was reported
RECURSIVE EvidenceOf(_, _)
EvidenceOf(cs, t) ==
    IF cs = <<>> THEN <<>>
    ELSE LET c == Head(cs)
             times == IF c.fn = "GetRecentFollowings" /\ c.err = ErrNone
                        THEN Len(SelectSeq(c.resp, LAMBDA x : x = t))
                        ELSE 0
         IN [k \in 1..times |-> c.user] \o EvidenceOf(Tail(cs), t)

\* the post count a call's own activity lookup gave for user t
CountOf(cs, t) ==
    LET k == CHOOSE j \in 1..Len(cs) : cs[j].fn = "CountRecentPosts" /\ cs[j].user = t
    IN cs[k].resp

\* The call with locals f has what it would have had running alone: its
\* lookups are for its own user and that user's connections, and the list it
\* returns holds one candidate for each user other than its own that its own
\* successful lookups reported, with the evidence and the post count its own
\* lookups gave.
RanAlone(f) ==
    /\ \A k \in 1..Len(f.calls) :
          /\ f.calls[k].fn = "GetFollowings" => k = 1 /\ f.calls[k].user = f.forUserID
          /\ f.calls[k].fn = "GetRecentFollowings" =>
                f.calls[k].user = f.calls[1].resp[k - 1]
          /\ f.calls[k].fn = "CountRecentPosts" =>
                EvidenceOf(f.calls, f.calls[k].user) # <<>>
    /\ (f.pc = "done" /\ f.genRet = "list") =>
          /\ \A a, b \in 1..Len(f.recommendations) :
                a # b => Target(f.recommendations[a]) # Target(f.recommendations[b])
          /\ {Target(i) : i \in Range(f.recommendations)} =
                {t \in ConcUsers : EvidenceOf(f.calls, t) # <<>>} \ {f.forUserID}
          /\ \A i \in Range(f.recommendations) :
                recs[i] = UserRecommendation(i, Target(i),
                              NewRecommendationReason(ReasonFollowedByFollowing,
                                                      EvidenceOf(f.calls, Target(i))),
                              CountOf(f.calls, Target(i)), recs[i].createdAt)
    /\ (f.pc = "done" /\ f.genRet = "nil") =>
          f.genErr # ErrNone /\ f.genErr = f.calls[1].err /\ f.recommendations = <<>>

\* C29: two calls of the generator under way at the same time do not
\* interfere: no candidate is in both lists, and each call makes the lookups
\* and returns the list it would have made and returned running alone.
C29_NoInterference ==
    /\ Range(recommendations) \cap Range(other.recommendations) = {}
    /\ RanAlone(Frame)
    /\ RanAlone(other)

\* both calls have returned a list of one candidate; the call that runs
\* built the first object of the heap (for its own user, which its list
\* refused) before and its candidate after the other call built its candidate
C29_Witness ==
    /\ pc = "done" /\ genRet = "list"
    /\ other.pc = "done" /\ other.genRet = "list"
    /\ forUserID # other.forUserID
    /\ other.recommendations = <<2>>
    /\ recommendations = <<3>>
    /\ Target(1) = forUserID

\* =====================================================================
\* Properties of the user ids the repository hands to the domain (SpecRows)
\* =====================================================================
\* C30: NewUserID refuses a value <= 0 with ErrInvalidUserID and accepts every
\* other; and every user id that came from SocialGraphRepositoryImpl and is
\* the target of a candidate or in a candidate's evidence is > 0, whatever
\* the following_id of the rows.
C30_ValidUserIDs ==
    /\ \A value \in FollowingIDs :
          NewUserIDError(value) = (IF value <= 0 THEN ErrInvalidUserID ELSE ErrNone)
    /\ \A i \in Held :
          /\ Target(i) > 0
          /\ \A f \in Range(Evidence(i)) : f > 0

====
